---- MODULE Spec2Model ----
(***************************************************************************)
(* Model of the opsdroid AWS skill (src/__init__.py): the office-hours     *)
(* instance selector, the instance state watcher, the scheduled stop and   *)
(* start handlers and the ad-hoc count/start handlers.  The EC2 provider   *)
(* is the environment: its answers (and its ClientErrors) are chosen       *)
(* nondeterministically, its tag store is the variable `reservations`.     *)
(***************************************************************************)
EXTENDS Integers, Sequences, FiniteSets, TLC

VARIABLES
    reservations,   \* the provider's answer to describe_instances: response["Reservations"]
    pc,             \* position of the running handler
    only_stopped,   \* argument of the last get_office_hours_instances call
    instances,      \* list of instance ids returned by get_office_hours_instances
    status,         \* "server-status" parameter of aws_count_servers
    messages,       \* texts sent with message.respond, in order
    calls,          \* mutating provider calls issued by the running handler, in order
    previous,       \* handler and calls of the previous scheduled run, or NoRun
    handler,        \* the scheduled handler that is running, or NoHandler
    raised,         \* the ClientError raised by a provider call in this run, or NoError
    instanceid,     \* watcher: the instance being watched
    state,          \* watcher: reference state
    new_state,      \* watcher: last state observed
    check_count     \* watcher: polls made

vars == <<reservations, pc, only_stopped, instances, status, messages, calls,
          previous, handler, raised, instanceid, state, new_state, check_count>>

(***************************************************************************)
(* Bounds                                                                  *)
(***************************************************************************)
MaxInst == 2        \* instances in a describe_instances answer (selector, count)
ExtraPolls == 3     \* polls explored beyond the watcher's budget

(***************************************************************************)
(* Strings whose characters matter (tag values) are sequences of           *)
(* one-character strings, so that str.lower() is computed, not assumed.    *)
(***************************************************************************)
UpperChars == <<"A","B","C","D","E","F","G","H","I","J","K","L","M",
                "N","O","P","Q","R","S","T","U","V","W","X","Y","Z">>
LowerChars == <<"a","b","c","d","e","f","g","h","i","j","k","l","m",
                "n","o","p","q","r","s","t","u","v","w","x","y","z">>

LowerChar(c) ==
    IF \E i \in DOMAIN UpperChars : UpperChars[i] = c
    THEN LowerChars[CHOOSE i \in DOMAIN UpperChars : UpperChars[i] = c]
    ELSE c

\* str.lower()
lower(s) == [i \in DOMAIN s |-> LowerChar(s[i])]

str_false == <<"f","a","l","s","e">>
str_FaLsE == <<"F","a","L","s","E">>
str_true  == <<"t","r","u","e">>
str_g1    == <<"g","1">>

(***************************************************************************)
(* Instances as describe_instances returns them.  "Tags" and               *)
(* "InstanceLifecycle" are optional keys of the instance dictionary.       *)
(***************************************************************************)
Tag(k, v) == [Key |-> k, Value |-> v]

OfficeHoursValues == {str_false, str_FaLsE, str_true}

\* tag lists with distinct keys, as EC2 stores them
TagLists ==
    { oh \o asg \o st :
        oh  \in {<<>>} \cup { <<Tag("OfficeHours", v)>> : v \in OfficeHoursValues },
        asg \in {<<>>, <<Tag("aws:autoscaling:groupName", str_g1)>>},
        st  \in {<<>>, <<Tag("StoppedByOfficeHours", str_true)>>} }

\* the tag lists of the accounts the scheduled handlers run against
DevTagLists ==
    { oh \o st :
        oh \in {<<>>, <<Tag("OfficeHours", str_FaLsE)>>, <<Tag("OfficeHours", str_true)>>},
        st \in {<<>>, <<Tag("StoppedByOfficeHours", str_true)>>} }

Lifecycles == {"spot", "scheduled"}

\* an instance dictionary without its InstanceId
KindsOver(taglists, lifecycles) ==
    LET tagged == {<<>>} \cup { [Tags |-> t] : t \in taglists }
        cycled == {<<>>} \cup { [InstanceLifecycle |-> l] : l \in lifecycles }
    IN  { t @@ l : t \in tagged, l \in cycled }

Kinds == KindsOver(TagLists, Lifecycles)
DevKinds == KindsOver(DevTagLists, {"spot"})

InstanceIdOf(i) == "i-" \o ToString(i)

WithIds(flat) ==
    [i \in DOMAIN flat |-> [InstanceId |-> InstanceIdOf(i)] @@ flat[i]]

\* cut a flat list of instances into reservations after the positions in cuts
RECURSIVE Split(_, _, _, _, _)
Split(flat, cuts, i, cur, acc) ==
    IF i > Len(flat)
    THEN IF cur = <<>> THEN acc ELSE Append(acc, [Instances |-> cur])
    ELSE IF i \in cuts
         THEN Split(flat, cuts, i + 1, <<>>,
                    Append(acc, [Instances |-> Append(cur, flat[i])]))
         ELSE Split(flat, cuts, i + 1, Append(cur, flat[i]), acc)

\* r is an answer of describe_instances with at most max instances
IsResponse(r, kinds, max) ==
    \E n \in 0..max : \E f \in [1..n -> kinds] : \E c \in SUBSET (1..(n - 1)) :
        r = Split(WithIds(f), c, 1, <<>>, <<>>)

(***************************************************************************)
(* Helper functions of the skill                                           *)
(***************************************************************************)
\* clean_tags: list of boto tags -> dictionary
RECURSIVE clean_tags(_)
clean_tags(array_of_tags) ==
    IF array_of_tags = <<>>
    THEN [k \in {} |-> <<>>]
    ELSE LET n    == Len(array_of_tags)
             tag  == array_of_tags[n]
             rest == clean_tags(SubSeq(array_of_tags, 1, n - 1))
         IN  [k \in DOMAIN rest \cup {tag.Key} |->
                 IF k = tag.Key THEN tag.Value ELSE rest[k]]

\* tags = clean_tags(instance["Tags"]) if "Tags" in instance else {}
TagsOf(instance) ==
    IF "Tags" \in DOMAIN instance THEN clean_tags(instance.Tags)
    ELSE [k \in {} |-> <<>>]

\* the instance is neither in an autoscaling group nor a spot instance
NotManaged(instance, tags) ==
    /\ "aws:autoscaling:groupName" \notin DOMAIN tags
    /\ ("InstanceLifecycle" \notin DOMAIN instance \/ instance.InstanceLifecycle # "spot")

OfficeHoursOn_NoLower(tags) ==
    "OfficeHours" \notin DOMAIN tags \/ tags["OfficeHours"] # str_false

\* the OfficeHours tag does not opt the instance out
OfficeHoursOn(tags) ==
    "OfficeHours" \notin DOMAIN tags \/ lower(tags["OfficeHours"]) # str_false

StoppedCheck_Ignored(tags, only) == TRUE

\* only_stopped asks for the StoppedByOfficeHours tag
StoppedCheck(tags, only) ==
    only = FALSE \/ "StoppedByOfficeHours" \in DOMAIN tags

RECURSIVE SelectFrom(_, _)
SelectFrom(insts, only) ==
    IF insts = <<>> THEN <<>>
    ELSE LET instance == Head(insts)
             tags     == TagsOf(instance)
             rest     == SelectFrom(Tail(insts), only)
         IN  IF NotManaged(instance, tags) /\ OfficeHoursOn(tags) /\ StoppedCheck(tags, only)
             THEN <<instance.InstanceId>> \o rest
             ELSE rest

\* get_office_hours_instances, applied to response["Reservations"]
RECURSIVE get_office_hours_instances(_, _)
get_office_hours_instances(resvs, only) ==
    IF resvs = <<>> THEN <<>>
    ELSE SelectFrom(Head(resvs).Instances, only)
         \o get_office_hours_instances(Tail(resvs), only)

NoError == "none"
NoInstance == "none"
NoState == "none"
NoStatus == "none"
NoHandler == "none"
NoRun == [handler |-> NoHandler, calls |-> <<>>]

(***************************************************************************)
(* Selector specification: the answer of describe_instances is drawn from  *)
(* every bounded answer, the selector is applied to it.                    *)
(***************************************************************************)
Quiet ==
    /\ only_stopped = FALSE
    /\ instances = <<>>
    /\ status = NoStatus
    /\ messages = <<>>
    /\ calls = <<>>
    /\ previous = NoRun
    /\ handler = NoHandler
    /\ raised = NoError
    /\ instanceid = NoInstance
    /\ state = NoState
    /\ new_state = NoState
    /\ check_count = 0

InitSelect ==
    /\ IsResponse(reservations, Kinds, MaxInst)
    /\ pc = "idle"
    /\ Quiet

Select ==
    /\ pc = "idle"
    /\ \E only \in BOOLEAN :
        /\ only_stopped' = only
        /\ instances' = get_office_hours_instances(reservations, only)
    /\ pc' = "selected"
    /\ UNCHANGED <<reservations, status, messages, calls, previous, handler, raised,
                   instanceid, state, new_state, check_count>>

NextSelect == Select

SpecSelect == InitSelect /\ [][NextSelect]_vars


(***************************************************************************)
(* Vocabulary of the selector properties, read off the raw answer          *)
(***************************************************************************)
RECURSIVE Flat(_)
Flat(resvs) ==
    IF resvs = <<>> THEN <<>> ELSE Head(resvs).Instances \o Flat(Tail(resvs))

IdsOf(insts) == [i \in DOMAIN insts |-> insts[i].InstanceId]

HasKey(inst, k) ==
    /\ "Tags" \in DOMAIN inst
    /\ \E i \in DOMAIN inst.Tags : inst.Tags[i].Key = k

\* v spells "false" in some letter case
IsFalseAnyCase(v) ==
    /\ Len(v) = Len(str_false)
    /\ \A i \in DOMAIN str_false :
         \E j \in DOMAIN LowerChars :
            /\ LowerChars[j] = str_false[i]
            /\ v[i] \in {LowerChars[j], UpperChars[j]}

OptedOut(inst) ==
    /\ "Tags" \in DOMAIN inst
    /\ \E i \in DOMAIN inst.Tags :
         inst.Tags[i].Key = "OfficeHours" /\ IsFalseAnyCase(inst.Tags[i].Value)

IsSpot(inst) ==
    "InstanceLifecycle" \in DOMAIN inst /\ inst.InstanceLifecycle = "spot"

Excluded(inst) ==
    OptedOut(inst) \/ HasKey(inst, "aws:autoscaling:groupName") \/ IsSpot(inst)

KeptForStop(inst) == ~Excluded(inst)

CarriesStopped(id) ==
    \E i \in DOMAIN Flat(reservations) :
        /\ Flat(reservations)[i].InstanceId = id
        /\ HasKey(Flat(reservations)[i], "StoppedByOfficeHours")

InSeq(x, s) == \E i \in DOMAIN s : s[i] = x

\* C5: with only_stopped=False the selector returns, in snapshot order, exactly
\* the instances that have no OfficeHours tag spelling "false" in any letter
\* case, no aws:autoscaling:groupName tag and no spot lifecycle; an instance
\* without tags is among them.
C5_SelectForStop ==
    (pc = "selected" /\ only_stopped = FALSE) =>
        instances = IdsOf(SelectSeq(Flat(reservations), KeptForStop))

C5_Witness ==
    /\ pc = "selected" /\ only_stopped = FALSE
    /\ \E i, j, k \in DOMAIN Flat(reservations) :
        /\ "Tags" \notin DOMAIN Flat(reservations)[i]
        /\ "InstanceLifecycle" \notin DOMAIN Flat(reservations)[i]
        /\ InSeq(Flat(reservations)[i].InstanceId, instances)
        /\ HasKey(Flat(reservations)[j], "OfficeHours")
        /\ Flat(reservations)[j].Tags[1].Value = str_FaLsE
        /\ ~InSeq(Flat(reservations)[j].InstanceId, instances)
        /\ IsSpot(Flat(reservations)[k])

\* C6: the selector's result with only_stopped=True is exactly the sub-sequence
\* of its result with only_stopped=False made of the instances carrying the tag
\* key StoppedByOfficeHours; an instance with no tags is never in it.
C6_SelectForStart ==
    (pc = "selected" /\ only_stopped = TRUE) =>
        /\ instances = SelectSeq(get_office_hours_instances(reservations, FALSE),
                                 CarriesStopped)
        /\ \A i \in DOMAIN Flat(reservations) :
              ("Tags" \notin DOMAIN Flat(reservations)[i] \/ Flat(reservations)[i].Tags = <<>>)
                  => ~InSeq(Flat(reservations)[i].InstanceId, instances)

C6_Witness ==
    /\ pc = "selected" /\ only_stopped = TRUE
    /\ Len(instances) = 1
    /\ Len(get_office_hours_instances(reservations, FALSE)) = 2
    /\ \E i \in DOMAIN Flat(reservations) : "Tags" \notin DOMAIN Flat(reservations)[i]

(***************************************************************************)
(* aws_count_servers                                                       *)
(***************************************************************************)
InstanceStates ==
    {"pending", "running", "stopping", "stopped", "shutting-down", "terminated"}

ClientErrors == {"AuthFailure", "RequestLimitExceeded"}

\* "fmt".format(args)
Format(fmt, args) == [fmt |-> fmt, args |-> args]

\* a describe_instances answer filtered server-side on instance-state-name
IsFilteredResponse(r, st) ==
    \E n \in 0..MaxInst : \E f \in [1..n -> DevKinds] : \E c \in SUBSET (1..(n - 1)) :
        r = Split(WithIds([i \in 1..n |-> [State |-> [Name |-> st]] @@ f[i]]),
                  c, 1, <<>>, <<>>)

\* len(response["Reservations"])
CountOf(resvs) == Len(resvs)

InitCount ==
    /\ reservations = <<>>
    /\ pc = "idle"
    /\ Quiet

aws_count_servers ==
    /\ pc = "idle"
    /\ \E st \in InstanceStates :
        /\ status' = st
        /\ IsFilteredResponse(reservations', st)
        /\ messages' = Append(messages,
                Format("There are {} servers {}", <<CountOf(reservations'), st>>))
    /\ pc' = "done"
    /\ UNCHANGED <<only_stopped, instances, calls, previous, handler, raised,
                   instanceid, state, new_state, check_count>>

\* describe_instances raises: nothing in the handler catches it
aws_count_servers_raises ==
    /\ pc = "idle"
    /\ \E st \in InstanceStates : status' = st
    /\ \E e \in ClientErrors : raised' = e
    /\ pc' = "raised"
    /\ UNCHANGED <<reservations, only_stopped, instances, messages, calls, previous, handler,
                   instanceid, state, new_state, check_count>>

NextCount == aws_count_servers \/ aws_count_servers_raises

SpecCount == InitCount /\ [][NextCount]_vars

\* C7: the count action reports the number of instances in the provider's
\* answer, however they are grouped into reservations.
C7_CountsInstances ==
    (pc = "done" /\ status # NoStatus) =>
        messages[Len(messages)].args[1] = Len(Flat(reservations))


(***************************************************************************)
(* aws_start_server and aws_watch_instance_state_until_change              *)
(***************************************************************************)
PollBudget == 60

MaxPolls == PollBudget + ExtraPolls

ServerIds == {"i-1"}

\* the while condition of the watcher
WatchContinues(st, new, count) == st = new \/ count > PollBudget

InitWatch ==
    /\ reservations = <<>>
    /\ pc = "idle"
    /\ Quiet

\* line 128: start_instances outside the try block
start_server_first_call ==
    /\ pc = "idle"
    /\ \E id \in ServerIds :
        /\ instanceid' = id
        /\ \/ /\ calls' = Append(calls, [op |-> "start_instances", ids |-> <<id>>])
              /\ pc' = "try"
              /\ UNCHANGED raised
           \/ /\ \E e \in ClientErrors : raised' = e
              /\ pc' = "raised"
              /\ UNCHANGED calls
    /\ UNCHANGED <<reservations, only_stopped, instances, status, messages, previous, handler,
                   state, new_state, check_count>>

\* line 130-137: start_instances inside the try block answers; the handler
\* reports the instance's CurrentState and enters the watcher with it
start_server_second_call ==
    /\ pc = "try"
    /\ \E cur \in InstanceStates :
        /\ calls' = Append(calls, [op |-> "start_instances", ids |-> <<instanceid>>])
        /\ messages' = Append(messages,
                Format("Changed instance {} to {}", <<instanceid, cur>>))
        /\ state' = cur
        /\ new_state' = cur
        /\ check_count' = 0
    /\ pc' = "watching"
    /\ UNCHANGED <<reservations, only_stopped, instances, status, previous, handler, raised,
                   instanceid>>

\* line 130, 138-139: start_instances inside the try block raises
start_server_second_call_raises ==
    /\ pc = "try"
    /\ \E e \in ClientErrors :
        /\ raised' = e
        /\ messages' = Append(messages, Format("{}", <<e>>))
    /\ pc' = "done"
    /\ UNCHANGED <<reservations, only_stopped, instances, status, calls, previous, handler,
                   instanceid, state, new_state, check_count>>

\* one iteration of the watcher's loop; seen is the state in the answer of
\* describe_instance_status, or NoState when InstanceStatuses is empty
watch_poll ==
    /\ pc = "watching"
    /\ WatchContinues(state, new_state, check_count)
    /\ check_count < MaxPolls
    /\ check_count' = check_count + 1
    /\ \E seen \in InstanceStates \cup {NoState} :
        IF seen = NoState
        THEN UNCHANGED <<new_state, messages>>
        ELSE /\ new_state' = seen
             /\ messages' = IF seen # state
                            THEN Append(messages,
                                    Format("Instance {} is now {}", <<instanceid, seen>>))
                            ELSE messages
    /\ UNCHANGED <<reservations, pc, only_stopped, instances, status, calls, previous, handler,
                   raised, instanceid, state>>

\* describe_instance_status raises inside the watcher: caught by
\* aws_start_server's except clause
watch_poll_raises ==
    /\ pc = "watching"
    /\ WatchContinues(state, new_state, check_count)
    /\ check_count < MaxPolls
    /\ check_count' = check_count + 1
    /\ \E e \in ClientErrors :
        /\ raised' = e
        /\ messages' = Append(messages, Format("{}", <<e>>))
    /\ pc' = "done"
    /\ UNCHANGED <<reservations, only_stopped, instances, status, calls, previous, handler,
                   instanceid, state, new_state>>

\* the while condition is false: the watcher returns, the handler ends
watch_returns ==
    /\ pc = "watching"
    /\ ~WatchContinues(state, new_state, check_count)
    /\ pc' = "done"
    /\ UNCHANGED <<reservations, only_stopped, instances, status, messages, calls,
                   previous, handler, raised, instanceid, state, new_state, check_count>>

NextWatch ==
    \/ start_server_first_call
    \/ start_server_second_call
    \/ start_server_second_call_raises
    \/ watch_poll
    \/ watch_poll_raises
    \/ watch_returns

SpecWatch == InitWatch /\ [][NextWatch]_vars

Notifications == SelectSeq(messages, LAMBDA m : m.fmt = "Instance {} is now {}")

\* C1: while no poll has shown a state different from the reference state, the
\* watcher makes at most 60 polls and sends no notification.
C1_WatchBounded ==
    (pc \in {"watching", "done"} /\ Notifications = <<>>) => check_count <= PollBudget

\* C2: the watcher sends one notification, carrying the new state, when it
\* first observes a state different from the reference state, and none after it.
C2_OneNotification ==
    /\ Len(Notifications) <= 1
    /\ \A i \in DOMAIN Notifications : Notifications[i].args[2] # state


(***************************************************************************)
(* The scheduled handlers: aws_stop_dev (devstop) and aws_stop_dev         *)
(* (devstart).  `reservations` is the account; create_tags and delete_tags *)
(* are the provider's effect on it.                                        *)
(***************************************************************************)
byes == {"Right, I'm done for the day. Shutting down and going home, Bye!",
         "Ok I'm off. Shutting down the dev stacks. See ya!"}

hellos == {"Morning everyone, I'm in work bright and early and ready to get stuff done!",
           "Morning all, let's have a productive day!"}

\* Tags=[{'Key': 'StoppedByOfficeHours', 'Value': 'true'}]
StopDevTag == Tag("StoppedByOfficeHours", str_true)

StartDevTagKey_Slip == "OfficeHours"

\* Tags=[{'Key': 'StoppedByOfficeHours'}]
StartDevTagKey == "StoppedByOfficeHours"

\* if len(instances) > 0
HasInstances_Always(ids) == TRUE

HasInstances(ids) == Len(ids) > 0

SetTag(taglist, tag) ==
    IF \E i \in DOMAIN taglist : taglist[i].Key = tag.Key
    THEN [i \in DOMAIN taglist |-> IF taglist[i].Key = tag.Key THEN tag ELSE taglist[i]]
    ELSE Append(taglist, tag)

TagInstance(inst, tag) ==
    [Tags |-> SetTag(IF "Tags" \in DOMAIN inst THEN inst.Tags ELSE <<>>, tag)] @@ inst

UntagInstance(inst, key) ==
    IF "Tags" \notin DOMAIN inst THEN inst
    ELSE LET left == SelectSeq(inst.Tags, LAMBDA t : t.Key # key)
         IN  IF left = <<>>
             THEN [k \in DOMAIN inst \ {"Tags"} |-> inst[k]]
             ELSE [Tags |-> left] @@ inst

\* the account after create_tags(Resources=ids, Tags=[tag])
create_tags(resvs, ids, tag) ==
    [r \in DOMAIN resvs |->
        [Instances |-> [i \in DOMAIN resvs[r].Instances |->
            IF InSeq(resvs[r].Instances[i].InstanceId, ids)
            THEN TagInstance(resvs[r].Instances[i], tag)
            ELSE resvs[r].Instances[i]]]]

\* the account after delete_tags(Resources=ids, Tags=[{'Key': key}])
delete_tags(resvs, ids, key) ==
    [r \in DOMAIN resvs |->
        [Instances |-> [i \in DOMAIN resvs[r].Instances |->
            IF InSeq(resvs[r].Instances[i].InstanceId, ids)
            THEN UntagInstance(resvs[r].Instances[i], key)
            ELSE resvs[r].Instances[i]]]]

Call(op, ids, arg, ok) == [op |-> op, ids |-> ids, arg |-> arg, ok |-> ok]

NoArg == "none"

InitSched ==
    /\ IsResponse(reservations, DevKinds, MaxInst)
    /\ pc = "idle"
    /\ Quiet

WatcherIdle == UNCHANGED <<status, instanceid, state, new_state, check_count>>

\* a handler is invoked (crontab or intent): greeting, describe_instances,
\* selection and the report of how many instances were selected
BeginRun(name, only, greetings, found, notfound) ==
    /\ pc \in {"idle", "done", "raised"}
    /\ previous' = IF pc = "idle" THEN previous
                   ELSE IF raised = NoError /\ pc = "done"
                        THEN [handler |-> handler, calls |-> calls]
                        ELSE NoRun
    /\ handler' = name
    /\ only_stopped' = only
    /\ calls' = <<>>
    /\ raised' = NoError
    /\ instances' = get_office_hours_instances(reservations, only)
    /\ \E greeting \in greetings :
        messages' = <<Format(greeting, <<>>),
                      IF HasInstances(instances')
                      THEN Format(found, <<Len(instances')>>)
                      ELSE Format(notfound, <<>>)>>
    /\ pc' = IF HasInstances(instances') THEN "change_state" ELSE "done"
    /\ UNCHANGED reservations
    /\ WatcherIdle

\* describe_instances raises inside get_office_hours_instances, outside any try
BeginRunRaises(name, only, greetings) ==
    /\ pc \in {"idle", "done", "raised"}
    /\ previous' = IF pc = "idle" THEN previous
                   ELSE IF raised = NoError /\ pc = "done"
                        THEN [handler |-> handler, calls |-> calls]
                        ELSE NoRun
    /\ handler' = name
    /\ only_stopped' = only
    /\ calls' = <<>>
    /\ instances' = <<>>
    /\ \E greeting \in greetings : messages' = <<Format(greeting, <<>>)>>
    /\ \E e \in ClientErrors : raised' = e
    /\ pc' = "raised"
    /\ UNCHANGED reservations
    /\ WatcherIdle

\* a provider call inside the try block raises: the except clause reports it
CallRaises(name, at, op, arg) ==
    /\ handler = name
    /\ pc = at
    /\ \E e \in ClientErrors :
        /\ raised' = e
        /\ messages' = Append(messages, Format("{}", <<e>>))
    /\ calls' = Append(calls, Call(op, instances, arg, FALSE))
    /\ pc' = "done"
    /\ UNCHANGED <<reservations, only_stopped, instances, previous, handler>>
    /\ WatcherIdle

stop_dev_begin ==
    BeginRun("devstop", FALSE, byes, "Shutting down {} dev instances",
             "I couldn't find any instances to shut down")

stop_dev_describe_raises == BeginRunRaises("devstop", FALSE, byes)

\* client.stop_instances(InstanceIds=instances)
stop_dev_stop ==
    /\ handler = "devstop"
    /\ pc = "change_state"
    /\ calls' = Append(calls, Call("stop_instances", instances, NoArg, TRUE))
    /\ pc' = "change_tags"
    /\ UNCHANGED <<reservations, only_stopped, instances, messages, previous, handler, raised>>
    /\ WatcherIdle

stop_dev_stop_raises_then_tags ==
    /\ handler = "devstop"
    /\ pc = "change_state"
    /\ \E e \in ClientErrors :
        /\ raised' = e
        /\ messages' = Append(messages, Format("{}", <<e>>))
    /\ calls' = Append(calls, Call("stop_instances", instances, NoArg, FALSE))
    /\ pc' = "change_tags"
    /\ UNCHANGED <<reservations, only_stopped, instances, previous, handler>>
    /\ WatcherIdle

stop_dev_stop_raises == CallRaises("devstop", "change_state", "stop_instances", NoArg)

stop_dev_tag_skipped ==
    /\ handler = "devstop"
    /\ pc = "change_tags"
    /\ pc' = "done"
    /\ UNCHANGED <<reservations, only_stopped, instances, messages, calls, previous,
                   handler, raised>>
    /\ WatcherIdle

\* client.create_tags(Resources=instances, Tags=[...])
stop_dev_tag ==
    /\ handler = "devstop"
    /\ pc = "change_tags"
    /\ calls' = Append(calls, Call("create_tags", instances, StopDevTag, TRUE))
    /\ reservations' = create_tags(reservations, instances, StopDevTag)
    /\ pc' = "done"
    /\ UNCHANGED <<only_stopped, instances, messages, previous, handler, raised>>
    /\ WatcherIdle

stop_dev_tag_raises == CallRaises("devstop", "change_tags", "create_tags", StopDevTag)

start_dev_begin ==
    BeginRun("devstart", TRUE, hellos, "Starting {} dev instances",
             "I couldn't find any instances to start")

start_dev_describe_raises == BeginRunRaises("devstart", TRUE, hellos)

\* client.start_instances(InstanceIds=instances)
start_dev_start ==
    /\ handler = "devstart"
    /\ pc = "change_state"
    /\ calls' = Append(calls, Call("start_instances", instances, NoArg, TRUE))
    /\ pc' = "change_tags"
    /\ UNCHANGED <<reservations, only_stopped, instances, messages, previous, handler, raised>>
    /\ WatcherIdle

start_dev_start_raises == CallRaises("devstart", "change_state", "start_instances", NoArg)

\* client.delete_tags(Resources=instances, Tags=[...])
start_dev_untag ==
    /\ handler = "devstart"
    /\ pc = "change_tags"
    /\ calls' = Append(calls, Call("delete_tags", instances, StartDevTagKey, TRUE))
    /\ reservations' = delete_tags(reservations, instances, StartDevTagKey)
    /\ pc' = "done"
    /\ UNCHANGED <<only_stopped, instances, messages, previous, handler, raised>>
    /\ WatcherIdle

start_dev_untag_raises == CallRaises("devstart", "change_tags", "delete_tags", StartDevTagKey)

NextSched ==
    \/ stop_dev_begin
    \/ stop_dev_describe_raises
    \/ stop_dev_stop
    \/ stop_dev_stop_raises
    \/ stop_dev_tag
    \/ stop_dev_tag_raises
    \/ start_dev_begin
    \/ start_dev_describe_raises
    \/ start_dev_start
    \/ start_dev_start_raises
    \/ start_dev_untag
    \/ start_dev_untag_raises

SpecSched == InitSched /\ [][NextSched]_vars


(***************************************************************************)
(* Properties of the scheduled handlers                                    *)
(***************************************************************************)
Range(seq) == { seq[i] : i \in DOMAIN seq }

FailedCall(op) == \E i \in DOMAIN calls : calls[i].op = op /\ ~calls[i].ok

\* ids named by the successful calls of kind op in the call list cs
IdsIn(cs, op) == UNION { Range(cs[i].ids) : i \in { j \in DOMAIN cs : cs[j].op = op /\ cs[j].ok } }

\* C3: when the bulk stop call of the stop action raises, the action reports
\* the error text and ends without issuing the StoppedByOfficeHours tag write.
C3_NoTagAfterFailedStop ==
    (handler = "devstop" /\ FailedCall("stop_instances")) =>
        /\ pc = "done"
        /\ messages[Len(messages)] = Format("{}", <<raised>>)
        /\ \A i \in DOMAIN calls : calls[i].op # "create_tags"

C3_Witness ==
    /\ handler = "devstop" /\ pc = "done"
    /\ FailedCall("stop_instances")
    /\ Len(instances) = 2
    /\ raised \in ClientErrors

\* C4: every ClientError raised by a provider call of an action is reported as
\* a message carrying the error text; no action ends with an unreported error.
C4_ErrorsReported ==
    (pc \in {"done", "raised"} /\ raised # NoError) =>
        InSeq(Format("{}", <<raised>>), messages)

\* C8: a scheduled action with a non-empty selection and no provider failure
\* issues one bulk state change for the selected ids followed by one bulk tag
\* mutation of the same ids (stop then StoppedByOfficeHours=true, start then
\* removal of StoppedByOfficeHours); a tag mutation never comes first or alone.
C8_StateChangeThenTags ==
    /\ (handler = "devstop" /\ pc = "done" /\ raised = NoError /\ instances # <<>>) =>
          calls = << Call("stop_instances", instances, NoArg, TRUE),
                     Call("create_tags", instances,
                          Tag("StoppedByOfficeHours", str_true), TRUE) >>
    /\ (handler = "devstart" /\ pc = "done" /\ raised = NoError /\ instances # <<>>) =>
          calls = << Call("start_instances", instances, NoArg, TRUE),
                     Call("delete_tags", instances, "StoppedByOfficeHours", TRUE) >>
    /\ \A i \in DOMAIN calls :
          calls[i].op \in {"create_tags", "delete_tags"} =>
              /\ i > 1
              /\ calls[i - 1].ok
              /\ calls[i - 1].ids = calls[i].ids
              /\ calls[i - 1].op = IF calls[i].op = "create_tags"
                                   THEN "stop_instances" ELSE "start_instances"

C8_Witness ==
    /\ handler = "devstop" /\ pc = "done" /\ raised = NoError
    /\ Len(instances) = 2
    /\ Len(calls) = 2
    /\ previous.handler = "devstart" /\ Len(previous.calls) = 2

\* C9: when the selector returns nothing, the action reports that no instance
\* was found and issues no stop, start or tag call.
C9_EmptySelection ==
    (handler # NoHandler /\ raised = NoError /\ instances = <<>>) =>
        /\ pc = "done"
        /\ calls = <<>>
        /\ messages[Len(messages)].fmt =
              IF handler = "devstop"
              THEN "I couldn't find any instances to shut down"
              ELSE "I couldn't find any instances to start"

C9_Witness ==
    /\ handler = "devstop" /\ pc = "done" /\ raised = NoError
    /\ reservations = <<>>
    /\ calls = <<>>

\* C10: a start action that completes without failure right after a stop
\* action that completed without failure starts exactly the instances that
\* stop action stopped, and leaves no instance selectable for stop carrying
\* the tag StoppedByOfficeHours.
C10_RoundTrip ==
    (handler = "devstart" /\ pc = "done" /\ raised = NoError
        /\ previous.handler = "devstop") =>
        /\ IdsIn(calls, "start_instances") = IdsIn(previous.calls, "stop_instances")
        /\ \A i \in DOMAIN Flat(reservations) :
              KeptForStop(Flat(reservations)[i]) =>
                  ~HasKey(Flat(reservations)[i], "StoppedByOfficeHours")

C10_Witness ==
    /\ handler = "devstart" /\ pc = "done" /\ raised = NoError
    /\ previous.handler = "devstop"
    /\ IdsIn(calls, "start_instances") # {}
    /\ \E i \in DOMAIN Flat(reservations) :
          /\ Excluded(Flat(reservations)[i])
          /\ HasKey(Flat(reservations)[i], "StoppedByOfficeHours")

====
